---- MODULE Spec2Model ----
(***************************************************************************)
(* Model of the AI chat bridge of lichess-bot: lib/ai_chat.py              *)
(* (AIChatHandler) as it is driven by lib/conversation.py                  *)
(* (Conversation.react).                                                   *)
(*                                                                         *)
(* One AIChatHandler (one session) is modelled.  get_ai_response runs on   *)
(* the caller's thread; every accepted message starts a daemon thread that *)
(* runs _generate.  A thread is interleaved with the others at its         *)
(* blocking calls: the HTTP request of _call_llamacpp_chat and the reply   *)
(* callback (Conversation.send_reply, an HTTP request to the chat          *)
(* transport).  The code takes no lock.                                    *)
(*                                                                         *)
(* Spec is the chat session driven by the free-text lines of the opponent. *)
(* ConversationSpec is Conversation.react on the lines of every author     *)
(* (commands, free text, the bot's own lines), without the threads.        *)
(* SanitizerSpec, NormalizeSpec and ProbeSpec exercise one pure function   *)
(* each (_lichess_safe_message and send_reply, _normalize_history,         *)
(* _probe_server) on inputs drawn from bounded sets.                       *)
(***************************************************************************)
EXTENDS Integers, Sequences, FiniteSets, TLC

(* ---------------------------------------------------------------- bounds *)

\* Number of chat messages handed to get_ai_response in one behaviour.
MaxMsgs == 2

\* Largest configured settings.max_history_messages that is explored.
MaxHist == 3

Msgs == 1..MaxMsgs

(* -------------------------------------------------------- program values *)

\* ai_chat.py:95
DisconnectedMsg == "My brain is currently disconnected (AI server offline)."

\* ai_chat.py:154
GlitchMsg == "My brain glitched, try that again."

\* ai_chat.py:166
BrainFartMsg == "I'm having a brain-fart and can't reply."

\* The text of chat message m (line.text) and the text the backend answers
\* to the request made for message m.
TextOf(m) == "text" \o ToString(m)
ReplyOf(m) == "reply" \o ToString(m)

NoModel == "None"

VARIABLES
    enabled,            \* settings.enabled
    max_history_messages, \* settings.max_history_messages
    _connected,         \* AIChatHandler._connected
    _server_model_id,   \* AIChatHandler._server_model_id
    history,            \* AIChatHandler.history: sequence of [role, content]
    backendUp,          \* environment: the completion backend is reachable
    calls,              \* number of get_ai_response calls made so far
    pc,                 \* per message: where its handling stands
    ai_reply,           \* per message: the local ai_reply of its _generate
    cbCalls,            \* per message: the texts its callback was invoked with
    hop,                \* the last operation on history (observer)
    ev,                 \* what the last step did (observer)
    conv,               \* the last chat line Conversation.react handled and
                        \* what it did with it (observer)
    lab                 \* a pure function exercised alone: its input and result

vars == <<enabled, max_history_messages, _connected, _server_model_id, history,
          backendUp, calls, pc, ai_reply, cbCalls, hop, ev, conv, lab>>

(* ------------------------------------------------------ History Manager *)

Turn(role, content) == [role |-> role, content |-> content]

\* ai_chat.py:181-182 and 207-208: pop(0) while the first turn is not a user turn.
RECURSIVE DropLeadingNonUser(_)
DropLeadingNonUser(h) ==
    IF h # <<>> /\ Head(h).role # "user" THEN DropLeadingNonUser(Tail(h)) ELSE h

\* ai_chat.py:185-195: keep the turns that carry the expected role, flipping
\* the expected role after each kept turn.
RECURSIVE EnforceAlternation(_, _)
EnforceAlternation(h, expected) ==
    IF h = <<>> THEN <<>>
    ELSE IF Head(h).role = expected
         THEN <<Head(h)>> \o EnforceAlternation(Tail(h),
                                IF expected = "user" THEN "assistant" ELSE "user")
         ELSE EnforceAlternation(Tail(h), expected)

\* ai_chat.py:203-204: self.history[-n:] for n > 0.
LastN(h, n) == IF Len(h) > n THEN SubSeq(h, Len(h) - n + 1, Len(h)) ELSE h

\* Mutant of _normalize_history: the alternation filter (step 2) is left out.
NormalizeNoFilter(h, n) ==
    IF n <= 0 THEN <<>> ELSE DropLeadingNonUser(LastN(DropLeadingNonUser(h), n))

\* Mutant of _normalize_history: the size trim (step 3) is left out.
NormalizeNoTrim(h, n) ==
    DropLeadingNonUser(EnforceAlternation(DropLeadingNonUser(h), "user"))

\* Mutant of _normalize_history: the second pop of leading turns (after the
\* trim) is left out.
NormalizeNoFinalDrop(h, n) ==
    IF n <= 0 THEN <<>>
    ELSE LastN(EnforceAlternation(DropLeadingNonUser(h), "user"), n)

\* ai_chat.py:173-208
_normalize_history(h, n) ==
    LET alternated == EnforceAlternation(DropLeadingNonUser(h), "user")
    IN  IF n <= 0 THEN <<>>
        ELSE DropLeadingNonUser(LastN(alternated, n))

\* Mutant of _rollback_last_user_if_unanswered: the pop is left out.
RollbackNoPop(h) == h

\* ai_chat.py:168-171
_rollback_last_user_if_unanswered(h) ==
    IF h # <<>> /\ h[Len(h)].role = "user" THEN SubSeq(h, 1, Len(h) - 1) ELSE h

\* ai_chat.py:145-146: history.append(user turn); _normalize_history()
append_user(h, text, n) == _normalize_history(Append(h, Turn("user", text)), n)

\* Mutant of append_assistant: the reply is not appended.
AppendAssistantNothing(h, text, n) == _normalize_history(h, n)

\* ai_chat.py:157-158: history.append(assistant turn); _normalize_history()
append_assistant(h, text, n) == _normalize_history(Append(h, Turn("assistant", text)), n)

\* ai_chat.py:147: [system turn] + self.history
render_for_request(h) == <<Turn("system", "system_prompt")>> \o h

(* ----------------------------------------------------- Completion Client *)

\* What the POST of ai_chat.py:235 can end in.  kind "RequestException" is a
\* timeout or a transport error; kind "Exception" is any other exception
\* raised inside _call_llamacpp_chat (it is not caught there); kind "http"
\* is a response with a status and, for status 200, a body:
\*   "text"      JSON with choices[0].message.content = the reply
\*   "padded"    the same, the content surrounded by whitespace
\*   "blank"     the content is empty, whitespace only or null
\*   "nochoices" JSON without choices (or an empty list of them)
\*   "badshape"  JSON whose shape makes the extraction raise
\*   "nonjson"   r.json() raises
HttpBodies == {"text", "padded", "blank", "nochoices", "badshape", "nonjson"}
GatewayStatuses == {502, 503, 504}
OtherErrorStatuses == {404, 500}

Response(kind, status, body) == [kind |-> kind, status |-> status, body |-> body]
NoResponse == Response("none", 0, "none")

Responses ==
    {Response("RequestException", 0, "none"), Response("Exception", 0, "none")}
    \cup {Response("http", 200, b) : b \in HttpBodies}
    \cup {Response("http", s, "none") : s \in GatewayStatuses \cup OtherErrorStatuses}

\* While the backend is unreachable a request ends in a transport error or in
\* a gateway status answered by a proxy in front of it.
ResponsesWhen(up) ==
    IF up THEN Responses
    ELSE {Response("RequestException", 0, "none")}
         \cup {Response("http", s, "none") : s \in GatewayStatuses}

\* (msg.get("content") or "").strip() of ai_chat.py:260 for the reply text t.
Content(body, t) ==
    CASE body = "text" -> t
      [] body = "padded" -> t
      [] OTHER -> ""

\* Mutant of _call_llamacpp_chat: every status other than 200 marks the
\* session disconnected.
CallAnyErrorDisconnects(r, t, conn) ==
    CASE r.kind = "Exception" ->
            [raised |-> TRUE, reply |-> "", connected |-> conn]
      [] r.kind = "RequestException" ->
            [raised |-> FALSE, reply |-> "", connected |-> FALSE]
      [] r.kind = "http" /\ r.status # 200 ->
            [raised |-> FALSE, reply |-> "", connected |-> FALSE]
      [] OTHER ->
            [raised |-> FALSE, reply |-> Content(r.body, t), connected |-> conn]

\* ai_chat.py:214-264.  r: the outcome of the POST, t: the text the model
\* answers, conn: self._connected before the call.  raised: an exception
\* leaves the function; reply: the returned string; connected:
\* self._connected afterwards.
_call_llamacpp_chat(r, t, conn) ==
    CASE r.kind = "Exception" ->
            [raised |-> TRUE, reply |-> "", connected |-> conn]
      [] r.kind = "RequestException" ->
            [raised |-> FALSE, reply |-> "", connected |-> FALSE]
      [] r.kind = "http" /\ r.status # 200 ->
            [raised |-> FALSE, reply |-> "",
             connected |-> IF r.status \in GatewayStatuses THEN FALSE ELSE conn]
      [] OTHER ->
            [raised |-> FALSE, reply |-> Content(r.body, t), connected |-> conn]

(* ---------------------------------------------------------- Backend Probe *)

\* What GET /v1/models (ai_chat.py:110) can end in: an exception, a non-200
\* status, or status 200 with a body:
\*   "models"   {"data": [{"id": "m1"}]}
\*   "nomodels" JSON object without a non-empty data list
\*   "notdict"  JSON that is not an object (data.get raises)
\*   "nonjson"  r.json() raises
ModelsBodies == {"models", "nomodels", "notdict", "nonjson"}
ModelsResponses ==
    {Response("exception", 0, "none")}
    \cup {Response("http", 200, b) : b \in ModelsBodies}
    \cup {Response("http", s, "none") : s \in {404, 503}}

\* What GET / (ai_chat.py:123) can end in.
RootStatuses == {200, 201, 204, 301, 302, 307, 308, 404, 503}
RootResponses ==
    {Response("exception", 0, "none")}
    \cup {Response("http", s, "none") : s \in RootStatuses}

\* Mutant of probe_fallback: every answer of the root counts as reachable.
FallbackAnyStatus(root) == root.kind # "exception"

\* ai_chat.py:121-126
probe_fallback(root) ==
    IF root.kind = "exception" THEN FALSE ELSE root.status \in {200, 301, 302}

\* ai_chat.py:103-126.  Both requests are made inside try blocks that catch
\* every Exception, so no outcome of them leaves the function as an exception.
_probe_server(models, root) ==
    IF models.kind = "http" /\ models.status = 200
       /\ models.body \in {"models", "nomodels"}
    THEN [raised |-> FALSE, reachable |-> TRUE,
          model_id |-> IF models.body = "models" THEN "m1" ELSE NoModel]
    ELSE [raised |-> FALSE, reachable |-> probe_fallback(root), model_id |-> NoModel]

\* While the backend is unreachable both probe requests raise.
ProbesWhen(up) ==
    IF up THEN ModelsResponses \X RootResponses
    ELSE {<<Response("exception", 0, "none"), Response("exception", 0, "none")>>}

(* -------------------------------------------------------------- Chat text *)

\* A chat text is a sequence of characters (one-character strings), so that
\* len(), slicing, split() and startswith() are what they are in the code.
Whitespace == {" ", "\n", "\t"}

\* The character U+2026 that _lichess_safe_message appends.
Ellipsis == "U+2026"

\* conversation.py:18
MAX_LICHESS_CHAT_CHARS == 140

Max(a, b) == IF a >= b THEN a ELSE b
Min(a, b) == IF a <= b THEN a ELSE b

\* str.split(): the maximal runs of non-whitespace characters, in order.
splits(text) ==
    LET n == Len(text)
        Solid(i) == text[i] \notin Whitespace
        First(i) == Solid(i) /\ (i = 1 \/ ~Solid(i - 1))
        Final(i) == Solid(i) /\ (i = n \/ ~Solid(i + 1))
        starts == SelectSeq([i \in 1..n |-> i], First)
        ends == SelectSeq([i \in 1..n |-> i], Final)
    IN  [k \in 1..Len(starts) |-> SubSeq(text, starts[k], ends[k])]

\* sep.join(words)
RECURSIVE join(_, _)
join(sep, words) ==
    IF words = <<>> THEN <<>>
    ELSE IF Len(words) = 1 THEN words[1]
    ELSE words[1] \o sep \o join(sep, Tail(words))

\* s[:k] for k >= 0
Slice(s, k) == SubSeq(s, 1, Min(k, Len(s)))

\* s.rfind(c): the 0-based index of the last c in s, or -1.
rfind(s, c) ==
    LET at == {i \in 1..Len(s) : s[i] = c}
    IN  IF at = {} THEN -1 ELSE (CHOOSE i \in at : \A j \in at : j <= i) - 1

\* s.rstrip()
rstrip(s) ==
    LET n == Len(s)
        trailing == {i \in 1..n : \A j \in i..n : s[j] \in Whitespace}
    IN  SubSeq(s, 1, n - Cardinality(trailing))

\* s.startswith(prefix)
startswith(s, prefix) ==
    Len(s) >= Len(prefix) /\ SubSeq(s, 1, Len(prefix)) = prefix

\* s.lower() for the ASCII letters.
LowerOf ==
    "A" :> "a" @@ "B" :> "b" @@ "C" :> "c" @@ "D" :> "d" @@ "E" :> "e" @@
    "F" :> "f" @@ "G" :> "g" @@ "H" :> "h" @@ "I" :> "i" @@ "J" :> "j" @@
    "K" :> "k" @@ "L" :> "l" @@ "M" :> "m" @@ "N" :> "n" @@ "O" :> "o" @@
    "P" :> "p" @@ "Q" :> "q" @@ "R" :> "r" @@ "S" :> "s" @@ "T" :> "t" @@
    "U" :> "u" @@ "V" :> "v" @@ "W" :> "w" @@ "X" :> "x" @@ "Y" :> "y" @@
    "Z" :> "z"
lower(s) == [i \in 1..Len(s) |-> IF s[i] \in DOMAIN LowerOf THEN LowerOf[s[i]] ELSE s[i]]

\* The string a chat text is, for the chat session.
RECURSIVE StrOf(_)
StrOf(s) == IF s = <<>> THEN "" ELSE Head(s) \o StrOf(Tail(s))

\* Mutant of _lichess_safe_message: the cut keeps limit characters, not limit - 1.
SafeMessageCutAtLimit(text, limit) ==
    IF text = <<>> THEN <<>>
    ELSE LET clean == join(<<" ">>, splits(text))
         IN  IF Len(clean) <= limit THEN clean
             ELSE Append(rstrip(Slice(clean, limit)), Ellipsis)

\* Mutant of _lichess_safe_message: the cut text is returned without the ellipsis.
SafeMessageNoEllipsis(text, limit) ==
    IF text = <<>> THEN <<>>
    ELSE LET clean == join(<<" ">>, splits(text))
         IN  IF Len(clean) <= limit THEN clean
             ELSE rstrip(Slice(clean, Max(0, limit - 1)))

\* conversation.py:21-45
_lichess_safe_message(text, limit) ==
    IF text = <<>> THEN <<>>
    ELSE LET clean == join(<<" ">>, splits(text))
         IN  IF Len(clean) <= limit THEN clean
             ELSE LET hard == Max(0, limit - 1)
                      cut == Slice(clean, hard)
                      last_space == rfind(cut, " ")
                      kept == IF last_space >= 30 THEN Slice(cut, last_space) ELSE cut
                  IN  Append(rstrip(kept), Ellipsis)

\* conversation.py:136-146: the texts send_reply hands to li.chat for reply.
send_reply(reply) ==
    LET safe == _lichess_safe_message(reply, MAX_LICHESS_CHAT_CHARS)
    IN  IF safe = <<>> THEN <<>> ELSE <<safe>>

(* ----------------------------------------------------------- Conversation *)

\* conversation.py:84
command_prefix == <<"!">>

\* game.username
BotName == "bot"

ChatLine(room, username, text) == [room |-> room, username |-> username, text |-> text]

\* conversation.py:115-116
HelpReply ==
    <<"S", "u", "p", "p", "o", "r", "t", "e", "d", " ", "c", "o", "m", "m",
      "a", "n", "d", "s", ":", " ", "!", "w", "a", "i", "t", " ", "(", "w",
      "a", "i", "t", " ", "a", " ", "m", "i", "n", "u", "t", "e", " ", "f",
      "o", "r", " ", "m", "y", " ", "f", "i", "r", "s", "t", " ", "m", "o",
      "v", "e", ")", ",", " ", "!", "n", "a", "m", "e", ",", " ", "!", "e",
      "v", "a", "l", " ", "(", "o", "r", " ", "a", "n", "y", " ", "t", "e",
      "x", "t", " ", "s", "t", "a", "r", "t", "i", "n", "g", " ", "w", "i",
      "t", "h", " ", "!", "e", "v", "a", "l", ")", ",", " ", "!", "q", "u",
      "e", "u", "e">>

\* conversation.py:119
WaitReply ==
    <<"W", "a", "i", "t", "i", "n", "g", " ", "6", "0", " ", "s", "e", "c",
      "o", "n", "d", "s", ".", ".", ".">>

\* conversation.py:121-122 for game.me.name "bot", engine.name() "engine" and
\* version "1".
NameReply ==
    <<"b", "o", "t", " ", "r", "u", "n", "n", "i", "n", "g", " ", "e", "n",
      "g", "i", "n", "e", " ", "(", "l", "i", "c", "h", "e", "s", "s", "-",
      "b", "o", "t", " ", "v", "1", ")">>

\* conversation.py:127
NoEvalReply ==
    <<"I", " ", "d", "o", "n", "'", "t", " ", "t", "e", "l", "l", " ", "t",
      "h", "a", "t", " ", "t", "o", " ", "m", "y", " ", "o", "p", "p", "o",
      "n", "e", "n", "t", ",", " ", "s", "o", "r", "r", "y", ".">>

\* conversation.py:133
NoQueueReply ==
    <<"N", "o", " ", "c", "h", "a", "l", "l", "e", "n", "g", "e", "s", " ",
      "q", "u", "e", "u", "e", "d", ".">>

QueuePrefix ==
    <<"C", "h", "a", "l", "l", "e", "n", "g", "e", " ", "q", "u", "e", "u",
      "e", ":", " ">>

\* The engine statistics engine.get_stats(for_chat=True) can return.
StatsLists ==
    {<<>>,
     <<<<"D", "e", "p", "t", "h", ":", " ", "9">>, <<"N", "p", "s", ":", " ", "5">>>>}

\* What the game and the engine answer during one react call: whether the
\* game is abortable, the engine statistics, and the challenge queue (names
\* of the challengers, oldest first).  No command reads both of the last two.
Games ==
    {[abortable |-> a, stats |-> z[1], challengers |-> z[2]] :
        a \in BOOLEAN,
        z \in {<<<<>>, <<>>>>,
                <<<<<<"D", "e", "p", "t", "h", ":", " ", "9">>,
                    <<"N", "p", "s", ":", " ", "5">>>>,
                  <<<<"a", "n", "n">>, <<"b", "o">>>>>>}}

\* reversed(seq)
reversed(seq) == [i \in 1..Len(seq) |-> seq[Len(seq) + 1 - i]]

\* The texts of the chat lines: no text, the commands (in either case, with
\* and without a tail), unknown commands, the bare prefix, and the free text
\* of message m.
CommandTexts ==
    {<<"!", "h", "e", "l", "p">>, <<"!", "H", "e", "l", "p">>,
     <<"!", "c", "o", "m", "m", "a", "n", "d", "s">>,
     <<"!", "w", "a", "i", "t">>, <<"!", "n", "a", "m", "e">>,
     <<"!", "e", "v", "a", "l">>,
     <<"!", "e", "v", "a", "l", "u", "a", "t", "e">>,
     <<"!", "q", "u", "e", "u", "e">>,
     <<"!", "h", "e", "l", "l", "o">>, <<"!", "h", "e", "l", "p", " ">>,
     <<"!">>}
FreeText(m) == <<"t", "e", "x", "t", ToString(m)>>
LineTexts(m) == {<<>>, FreeText(m)} \cup CommandTexts

\* The opponent writes in the player room, a viewer in the spectator room,
\* and the bot's own lines come back from both.
Authors ==
    {<<"player", "opponent">>, <<"spectator", "viewer">>,
     <<"player", BotName>>, <<"spectator", BotName>>}

Lines(m) ==
    {ChatLine(a[1], a[2], text) : a \in Authors, text \in LineTexts(m)}

\* The chat lines of the opponent the chat session is driven with.
OpponentLines(m) == {ChatLine("player", "opponent", FreeText(m))}

\* Mutant of command: a command that matches nothing is answered with the help.
CommandAnswersUnknown(line, cmd, game) == [replies |-> <<HelpReply>>, ping |-> FALSE]

\* conversation.py:105-134: the replies command passes to send_reply, and
\* whether it pings the game.
command(line, cmd, game) ==
    LET from_self == line.username = BotName
        is_eval == startswith(cmd, <<"e", "v", "a", "l">>)
        Reply(r) == [replies |-> <<r>>, ping |-> FALSE]
    IN  IF cmd \in {<<"c", "o", "m", "m", "a", "n", "d", "s">>, <<"h", "e", "l", "p">>}
        THEN Reply(HelpReply)
        ELSE IF cmd = <<"w", "a", "i", "t">> /\ game.abortable
        THEN [replies |-> <<WaitReply>>, ping |-> TRUE]
        ELSE IF cmd = <<"n", "a", "m", "e">>
        THEN Reply(NameReply)
        ELSE IF is_eval /\ (from_self \/ line.room = "spectator")
        THEN Reply(join(<<",", " ">>, game.stats))
        ELSE IF is_eval
        THEN Reply(NoEvalReply)
        ELSE IF cmd = <<"q", "u", "e", "u", "e">>
        THEN IF game.challengers # <<>>
             THEN Reply(QueuePrefix \o join(<<",", " ">>,
                        [i \in 1..Len(game.challengers) |->
                            <<"@">> \o reversed(game.challengers)[i]]))
             ELSE Reply(NoQueueReply)
        ELSE [replies |-> <<>>, ping |-> FALSE]

\* The texts li.chat receives when send_reply is called with each of replies.
RECURSIVE sent_for(_)
sent_for(replies) ==
    IF replies = <<>> THEN <<>>
    ELSE send_reply(Head(replies)) \o sent_for(Tail(replies))

\* The observer's record of one react call: the line, where react routed it
\* ("none", "command" or "chat_session"), the command it ran, the texts
\* li.chat received before react returned, and whether the game was pinged.
Routed(line, route, cmd, sent, ping) ==
    [line |-> line, route |-> route, cmd |-> cmd, sent |-> sent, ping |-> ping]
NoConv == Routed(ChatLine("none", "none", <<>>), "none", <<>>, <<>>, FALSE)

\* conversation.py:96-103: where react routes a line.
react_route(line) ==
    IF line.username = BotName THEN "none"
    ELSE IF line.text # <<>> /\ startswith(line.text, command_prefix) THEN "command"
    ELSE IF line.text # <<>> THEN "chat_session"
    ELSE "none"

(* ------------------------------------------------------------ Chat Session *)

\* The observer's record of the step just taken: the request a thread has
\* just posted (its messages list), the response a thread has just received,
\* or the get_ai_response call just made (the _connected it found).
Event(kind, m, messages, response, conn) ==
    [kind |-> kind, by |-> m, messages |-> messages, response |-> response,
     conn |-> conn]
NoEvent == Event("none", 0, <<>>, NoResponse, FALSE)

NoHop == [kind |-> "none", by |-> 0, before |-> <<>>, direct |-> FALSE]

\* The observer's record of a history operation by message m.  before is the
\* transcript before the operation; for a rollback that directly follows m's
\* own append_user (no history operation in between) it is the transcript
\* before that append, and direct is TRUE.
HopAppend(kind, m) == [kind |-> kind, by |-> m, before |-> history, direct |-> FALSE]
HopRollback(m) ==
    LET follows == hop.kind = "append_user" /\ hop.by = m
    IN  [kind |-> "rollback", by |-> m,
         before |-> IF follows THEN hop.before ELSE history,
         direct |-> follows]

\* lab while no pure function is exercised alone.
NoLab == [fn |-> "none"]

\* conversation.py:81-82 and ai_chat.py:47-82: the state after construction.
Init ==
    /\ enabled \in BOOLEAN
    /\ max_history_messages \in 0..MaxHist
    /\ backendUp \in BOOLEAN
    /\ \E p \in ProbesWhen(backendUp) :
          /\ _connected = (enabled /\ _probe_server(p[1], p[2]).reachable)
          /\ _server_model_id =
                IF enabled THEN _probe_server(p[1], p[2]).model_id ELSE NoModel
    /\ history = <<>>
    /\ calls = 0
    /\ pc = [m \in Msgs |-> "none"]
    /\ ai_reply = [m \in Msgs |-> ""]
    /\ cbCalls = [m \in Msgs |-> <<>>]
    /\ hop = NoHop
    /\ ev = NoEvent
    /\ conv = NoConv
    /\ lab = NoLab

\* Mutant of get_ai_response_path: the check of _connected is left out.
PathNoConnectedCheck(en, conn) == IF ~en THEN "ignored" ELSE "spawned"

\* Mutant of get_ai_response_path: a disabled session apologizes too.
PathDisabledApologizes(en, conn) == IF ~en \/ ~conn THEN "apologized" ELSE "spawned"

\* ai_chat.py:91-99: which way get_ai_response goes.
get_ai_response_path(en, conn) ==
    IF ~en THEN "ignored"
    ELSE IF ~conn THEN "apologized"
    ELSE "spawned"

\* ai_chat.py:86-99: the free text of message m is handed to get_ai_response.
get_ai_response(m) ==
    /\ m = calls + 1
    /\ m <= MaxMsgs
    /\ calls' = m
    /\ LET path == get_ai_response_path(enabled, _connected)
       IN  /\ pc' = [pc EXCEPT ![m] = path]
           /\ cbCalls' = [cbCalls EXCEPT
                 ![m] = IF path = "apologized" THEN <<DisconnectedMsg>> ELSE <<>>]
    /\ ev' = Event("call", m, <<>>, NoResponse, _connected)
    /\ UNCHANGED <<enabled, max_history_messages, _connected, _server_model_id,
                   history, backendUp, ai_reply, hop>>

\* conversation.py:86-103: react handles the chat line; command asks the game
\* and the engine, which answer as some game of Games does.  A line for the
\* chat session is message calls + 1.
react(line) ==
    /\ LET route == react_route(line)
           cmd == lower(Tail(line.text))
       IN  IF route = "command"
           THEN /\ \E game \in Games :
                      conv' = Routed(line, route, cmd,
                                     sent_for(command(line, cmd, game).replies),
                                     command(line, cmd, game).ping)
                /\ ev' = NoEvent
                /\ UNCHANGED <<enabled, max_history_messages, _connected,
                               _server_model_id, history, backendUp, calls, pc,
                               ai_reply, cbCalls, hop>>
           ELSE IF route = "chat_session"
           THEN /\ StrOf(line.text) = TextOf(calls + 1)
                /\ get_ai_response(calls + 1)
                /\ conv' = Routed(line, route, <<>>, <<>>, FALSE)
           ELSE /\ conv' = Routed(line, route, <<>>, <<>>, FALSE)
                /\ ev' = NoEvent
                /\ UNCHANGED <<enabled, max_history_messages, _connected,
                               _server_model_id, history, backendUp, calls, pc,
                               ai_reply, cbCalls, hop>>
    /\ UNCHANGED lab

\* Mutant of generate_except: the except clause does not roll back.
ExceptNoRollback(h) == [history |-> h, pc |-> "cb_error"]

\* Mutant of generate_except: _generate without its except clause.
ExceptMissing(h) == [history |-> h, pc |-> "escaped"]

\* ai_chat.py:163-166: the except clause of _generate up to its callback:
\* roll back, then callback(BrainFartMsg) is pending.
generate_except(h) ==
    [history |-> _rollback_last_user_if_unanswered(h), pc |-> "cb_error"]

\* ai_chat.py:129-147, 163-165: the thread of message m runs _generate up to
\* the POST.  statsOk = FALSE: building the prompt raises (engine.get_stats()
\* raises, or stats has one element and stats[1] raises).
generate_begin(m, statsOk) ==
    /\ pc[m] = "spawned"
    /\ IF statsOk
       THEN /\ history' = append_user(history, TextOf(m), max_history_messages)
            /\ ev' = Event("request", m, render_for_request(history'), NoResponse,
                            _connected)
            /\ pc' = [pc EXCEPT ![m] = "requesting"]
            /\ hop' = HopAppend("append_user", m)
       ELSE /\ history' = generate_except(history).history
            /\ pc' = [pc EXCEPT ![m] = generate_except(history).pc]
            /\ hop' = HopRollback(m)
            /\ ev' = NoEvent
    /\ UNCHANGED <<conv, lab, enabled, max_history_messages, _connected, _server_model_id,
                   backendUp, calls, ai_reply, cbCalls>>

\* ai_chat.py:149-158, 163-165 with 234-264: the POST of message m ends in r;
\* _generate runs on to its next callback.
generate_response(m, r) ==
    /\ pc[m] = "requesting"
    /\ r \in ResponsesWhen(backendUp)
    /\ ev' = Event("response", m, <<>>, r, _connected)
    /\ LET c == _call_llamacpp_chat(r, ReplyOf(m), _connected)
       IN  /\ _connected' = c.connected
           /\ ai_reply' = [ai_reply EXCEPT ![m] = c.reply]
           /\ IF c.raised
              THEN /\ history' = generate_except(history).history
                   /\ pc' = [pc EXCEPT ![m] = generate_except(history).pc]
                   /\ hop' = HopRollback(m)
              ELSE IF c.reply = ""
              THEN /\ history' = _rollback_last_user_if_unanswered(history)
                   /\ pc' = [pc EXCEPT ![m] = "cb_glitch"]
                   /\ hop' = HopRollback(m)
              ELSE /\ history' = append_assistant(history, c.reply, max_history_messages)
                   /\ pc' = [pc EXCEPT ![m] = "cb_reply"]
                   /\ hop' = HopAppend("append_assistant", m)
    /\ UNCHANGED <<conv, lab, enabled, max_history_messages, _server_model_id, backendUp,
                   calls, cbCalls>>

\* The text the pending callback of message m is invoked with
\* (ai_chat.py:154, 160, 166).
CallbackText(m) ==
    CASE pc[m] = "cb_reply" -> ai_reply[m]
      [] pc[m] = "cb_glitch" -> GlitchMsg
      [] OTHER -> BrainFartMsg

\* ai_chat.py:154-155, 160-161, 166: the callback of message m is invoked and
\* returns; _generate returns.
callback_returns(m) ==
    /\ pc[m] \in {"cb_reply", "cb_glitch", "cb_error"}
    /\ cbCalls' = [cbCalls EXCEPT ![m] = Append(@, CallbackText(m))]
    /\ pc' = [pc EXCEPT ![m] = "done"]
    /\ ev' = NoEvent
    /\ UNCHANGED <<conv, lab, enabled, max_history_messages, _connected, _server_model_id,
                   history, backendUp, calls, ai_reply, hop>>

\* ai_chat.py:154, 160 with 163-165: the callback of message m is invoked and
\* raises (conversation.py:146, the chat transport fails) inside the try
\* block: the except clause runs.
callback_raises(m) ==
    /\ pc[m] \in {"cb_reply", "cb_glitch"}
    /\ cbCalls' = [cbCalls EXCEPT ![m] = Append(@, CallbackText(m))]
    /\ history' = generate_except(history).history
    /\ pc' = [pc EXCEPT ![m] = generate_except(history).pc]
    /\ hop' = HopRollback(m)
    /\ ev' = NoEvent
    /\ UNCHANGED <<conv, lab, enabled, max_history_messages, _connected, _server_model_id,
                   backendUp, calls, ai_reply>>

\* ai_chat.py:166: the callback of message m raises inside the except clause:
\* the exception leaves _generate and ends the thread.
callback_raises_in_except(m) ==
    /\ pc[m] = "cb_error"
    /\ cbCalls' = [cbCalls EXCEPT ![m] = Append(@, CallbackText(m))]
    /\ pc' = [pc EXCEPT ![m] = "escaped"]
    /\ ev' = NoEvent
    /\ UNCHANGED <<conv, lab, enabled, max_history_messages, _connected, _server_model_id,
                   history, backendUp, calls, ai_reply, hop>>

\* Environment: the backend becomes unreachable, or reachable again.
backend_flips ==
    /\ backendUp' = ~backendUp
    /\ ev' = NoEvent
    /\ UNCHANGED <<conv, lab, enabled, max_history_messages, _connected, _server_model_id,
                   history, calls, pc, ai_reply, cbCalls, hop>>

Next ==
    \/ \E line \in OpponentLines(calls + 1) : react(line)
    \/ \E m \in Msgs, statsOk \in BOOLEAN : generate_begin(m, statsOk)
    \/ \E m \in Msgs, r \in Responses : generate_response(m, r)
    \/ \E m \in Msgs : callback_returns(m)
    \/ \E m \in Msgs : callback_raises(m)
    \/ \E m \in Msgs : callback_raises_in_except(m)
    \/ backend_flips

Spec == Init /\ [][Next]_vars

\* Scheduling: a started thread keeps running (it is never starved for ever),
\* the POST returns or raises within settings.timeout_seconds, and a callback
\* returns or raises.
Fairness ==
    \A m \in Msgs :
        /\ WF_vars(\E statsOk \in BOOLEAN : generate_begin(m, statsOk))
        /\ WF_vars(\E r \in Responses : generate_response(m, r))
        /\ WF_vars(callback_returns(m) \/ callback_raises(m)
                   \/ callback_raises_in_except(m))

FairSpec == Spec /\ Fairness

\* The chat lines of one game, of every author and in both rooms, as react
\* handles them on the thread that reads the game stream.
ConversationNext ==
    \E line \in Lines(calls + 1) : react(line)

ConversationSpec == Init /\ [][ConversationNext]_vars

(* ------------------------------------------------- the pure functions alone *)

\* The rest of the state while a pure function is exercised on its own: a
\* disabled session that has handled nothing.
Idle ==
    /\ enabled = FALSE
    /\ max_history_messages = 0
    /\ backendUp = FALSE
    /\ _connected = FALSE
    /\ _server_model_id = NoModel
    /\ history = <<>>
    /\ calls = 0
    /\ pc = [m \in Msgs |-> "none"]
    /\ ai_reply = [m \in Msgs |-> ""]
    /\ cbCalls = [m \in Msgs |-> <<>>]
    /\ hop = NoHop
    /\ ev = NoEvent
    /\ conv = NoConv

IdleStays ==
    UNCHANGED <<enabled, max_history_messages, _connected, _server_model_id,
                history, backendUp, calls, pc, ai_reply, cbCalls, hop, ev, conv>>

\* Number of parts (words and runs of whitespace) of a text that is sanitized.
MaxParts == 3

Rep(c, k) == [i \in 1..k |-> c]

\* Words on both sides of the word-boundary threshold of conversation.py:42
\* and longer than MAX_LICHESS_CHAT_CHARS, and runs of whitespace.
TextParts ==
    {Rep("a", k) : k \in {1, 2, 29, 30, 141}}
    \cup {<<" ">>, <<"\n">>, <<"\t", " ">>}

RECURSIVE Flatten(_)
Flatten(parts) == IF parts = <<>> THEN <<>> ELSE Head(parts) \o Flatten(Tail(parts))

SafeTexts == {Flatten(ps) : ps \in UNION {[1..n -> TextParts] : n \in 0..MaxParts}}

SafeLimits == {0, 1, 3, MAX_LICHESS_CHAT_CHARS}

SanitizerInit ==
    /\ Idle
    /\ \E text \in SafeTexts, limit \in SafeLimits :
          lab = [fn |-> "_lichess_safe_message", text |-> text, limit |-> limit,
                 out |-> <<>>, sent |-> <<>>, did |-> "none"]

\* conversation.py:21-45: _lichess_safe_message(text, limit) is called.
safe_message ==
    /\ lab.fn = "_lichess_safe_message"
    /\ lab.did = "none"
    /\ lab' = [lab EXCEPT !.out = _lichess_safe_message(lab.text, lab.limit),
                          !.did = "safe_message"]
    /\ IdleStays

\* conversation.py:136-146: send_reply(line, text) is called; sent is what
\* li.chat receives.
send_reply_text ==
    /\ lab.fn = "_lichess_safe_message"
    /\ lab.did = "none"
    /\ lab' = [lab EXCEPT !.sent = send_reply(lab.text), !.did = "send_reply"]
    /\ IdleStays

SanitizerNext == safe_message \/ send_reply_text

SanitizerSpec == SanitizerInit /\ [][SanitizerNext]_vars

\* Number of turns of a transcript that is normalized on its own.
MaxTurns == 4

\* The transcripts of up to MaxTurns turns over the three roles; the content
\* of a turn tells its place.
Transcripts ==
    UNION {{[i \in 1..k |-> Turn(roles[i], "c" \o ToString(i))] :
               roles \in [1..k -> {"user", "assistant", "system"}]} :
           k \in 0..MaxTurns}

NormalizeInit ==
    /\ Idle
    /\ \E h \in Transcripts, n \in -1..MaxHist :
          lab = [fn |-> "_normalize_history", h |-> h, n |-> n,
                 once |-> <<>>, twice |-> <<>>, did |-> 0]

\* ai_chat.py:173-208: _normalize_history() is called on the transcript h.
normalize_once ==
    /\ lab.fn = "_normalize_history"
    /\ lab.did = 0
    /\ lab' = [lab EXCEPT !.once = _normalize_history(lab.h, lab.n), !.did = 1]
    /\ IdleStays

\* ai_chat.py:173-208: _normalize_history() is called again, on its own result.
normalize_again ==
    /\ lab.fn = "_normalize_history"
    /\ lab.did = 1
    /\ lab' = [lab EXCEPT !.twice = _normalize_history(lab.once, lab.n), !.did = 2]
    /\ IdleStays

NormalizeNext == normalize_once \/ normalize_again

NormalizeSpec == NormalizeInit /\ [][NormalizeNext]_vars

ProbeInit ==
    /\ Idle
    /\ \E models \in ModelsResponses, root \in RootResponses :
          lab = [fn |-> "_probe_server", models |-> models, root |-> root,
                 did |-> FALSE, raised |-> FALSE, reachable |-> FALSE,
                 model_id |-> NoModel]

\* ai_chat.py:103-126: _probe_server() is called; the models query ends in
\* lab.models and the request to the root, if it is made, in lab.root.
probe_server ==
    /\ lab.fn = "_probe_server"
    /\ ~lab.did
    /\ LET p == _probe_server(lab.models, lab.root)
       IN  lab' = [lab EXCEPT !.did = TRUE, !.raised = p.raised,
                              !.reachable = p.reachable, !.model_id = p.model_id]
    /\ IdleStays

ProbeNext == probe_server

ProbeSpec == ProbeInit /\ [][ProbeNext]_vars

(* ------------------------------------------------------------ properties *)

Last(h) == h[Len(h)]

Alternates(h) == \A i \in 1..(Len(h) - 1) : h[i].role # h[i + 1].role

StartsWithUser(h) == h # <<>> => h[1].role = "user"

Suffix(h, k) == SubSeq(h, Len(h) - k + 1, Len(h))

InFlight(m) == pc[m] = "requesting"

Accepted(m) == pc[m] \notin {"none", "ignored", "apologized"}

\* The turn the history operation recorded in hop appended.
AppendedTurn ==
    IF hop.kind = "append_user" THEN Turn("user", TextOf(hop.by))
    ELSE Turn("assistant", ReplyOf(hop.by))

\* C1: after every completed history operation (append user + normalize,
\* append assistant + normalize, rollback), in every interleaving of the
\* message threads, the stored transcript holds user and assistant turns
\* only, strictly alternates roles and, if non-empty, starts with a user turn.
C1_AlternationInvariant ==
    /\ \A i \in 1..Len(history) : history[i].role \in {"user", "assistant"}
    /\ Alternates(history)
    /\ StartsWithUser(history)

\* C1 witness: two turns are stored after one message was answered and
\* another one was rolled back.
C1_Witness ==
    /\ Len(history) >= 2
    /\ hop.kind = "rollback"
    /\ \E m \in Msgs : pc[m] = "cb_reply" \/ (pc[m] = "done" /\ ai_reply[m] # "")

\* C2: after any mutation of the transcript its length is at most
\* max_history_messages; an append that extends an alternating transcript
\* leaves the longest suffix of (transcript + new turn) that fits the maximum
\* and starts with a user turn, i.e. it drops the oldest turns first and then a
\* leading non-user turn; with max 2 and transcript [user, assistant],
\* appending a user turn leaves only that new user turn.
C2_BoundAndTrim ==
    /\ Len(history) <= max_history_messages
    /\ (hop.kind \in {"append_user", "append_assistant"}
        /\ Alternates(Append(hop.before, AppendedTurn)))
       => LET full == Append(hop.before, AppendedTurn)
          IN  /\ Len(history) <= Len(full)
              /\ history = Suffix(full, Len(history))
              /\ StartsWithUser(history)
              /\ \A k \in (Len(history) + 1)..Len(full) :
                    k <= max_history_messages => Suffix(full, k)[1].role # "user"
    /\ (hop.kind = "append_user" /\ max_history_messages = 2
        /\ Len(hop.before) = 2
        /\ hop.before[1].role = "user" /\ hop.before[2].role = "assistant")
       => history = <<Turn("user", TextOf(hop.by))>>

\* C2 witness: with max 2 and a transcript [user, assistant], a user turn has
\* just been appended and is the only turn left.
C2_Witness ==
    /\ hop.kind = "append_user"
    /\ max_history_messages = 2
    /\ Len(hop.before) = 2
    /\ history = <<Turn("user", TextOf(hop.by))>>

\* A transcript as a message meets it while no other message is in flight:
\* empty or ending with an assistant turn.
AtRest(h) == h = <<>> \/ Last(h).role = "assistant"

\* C3 as claimed, for the transcripts at rest: whenever a rollback directly
\* follows the same message's user append (no history operation in between),
\* the transcript equals its state before that append, for every configured
\* maximum.
C3_RollbackRestores_Original ==
    (hop.kind = "rollback" /\ hop.direct /\ AtRest(hop.before))
    => history = hop.before

\* The transcripts for which append user + rollback is a round trip: empty,
\* or ending with an assistant turn and shorter than the maximum.
RoundTripTranscript(h) ==
    AtRest(h) /\ (h = <<>> \/ Len(h) < max_history_messages)

\* C3 as amended: whenever a rollback directly follows the same message's user
\* append, and before the append the transcript was empty or ended with an
\* assistant turn and held fewer than max_history_messages turns, the
\* transcript equals its state before that append.
C3_RollbackRestores ==
    (hop.kind = "rollback" /\ hop.direct /\ RoundTripTranscript(hop.before))
    => history = hop.before

\* C3 witness: a non-empty transcript below the maximum was restored by the
\* rollback that directly followed the user append.
C3_Witness ==
    /\ hop.kind = "rollback" /\ hop.direct
    /\ hop.before # <<>> /\ RoundTripTranscript(hop.before)
    /\ history = hop.before

\* C4: whenever no completion request is in flight, the transcript is empty
\* or ends with an assistant turn.
C4_NoDanglingUser ==
    (\A m \in Msgs : ~InFlight(m))
    => (history = <<>> \/ Last(history).role = "assistant")

\* C4 witness: a request ended in an exception, the except clause has rolled
\* the unanswered user turn back, and no request is in flight.
C4_Witness ==
    /\ hop.kind = "rollback" /\ hop.direct
    /\ pc[hop.by] = "cb_error"
    /\ \A m \in Msgs : ~InFlight(m)

\* The message a stored turn belongs to.
MsgOf(t) == CHOOSE m \in Msgs : t.content \in {TextOf(m), ReplyOf(m)}

\* C5 as claimed: the messages of one session are serialized: no two of them
\* are between their user append and their assistant append or rollback at
\* the same time, the turns are stored in the order of their messages, and
\* each stored assistant turn directly follows the user turn it answers.
C5_Serialized ==
    /\ Cardinality({m \in Msgs : InFlight(m)}) <= 1
    /\ \A i, j \in 1..Len(history) :
          i < j => MsgOf(history[i]) <= MsgOf(history[j])
    /\ \A i \in 1..Len(history) :
          history[i].role = "assistant"
          => /\ i > 1
             /\ history[i - 1] = Turn("user", TextOf(MsgOf(history[i])))

\* C6 as claimed: a get_ai_response call that finds the session disabled or
\* disconnected invokes the callback with the fixed apology string.
C6_ApologyWhenOff_Original ==
    (ev.kind = "call" /\ (~enabled \/ ~ev.conn))
    => cbCalls[ev.by] = <<DisconnectedMsg>>

\* C6 as amended: a get_ai_response call that finds the session enabled and
\* disconnected invokes the callback once, with the fixed apology string; a
\* call that finds the session disabled invokes no callback (no reply).
C6_ApologyWhenOff ==
    ev.kind = "call"
    => /\ (enabled /\ ~ev.conn) => cbCalls[ev.by] = <<DisconnectedMsg>>
       /\ ~enabled => cbCalls[ev.by] = <<>>

\* C6 witness: a message has just been answered with the apology by a
\* session that an earlier message's request had marked disconnected.
C6_Witness ==
    /\ ev.kind = "call" /\ enabled /\ ~ev.conn
    /\ cbCalls[ev.by] = <<DisconnectedMsg>>
    /\ \E m \in Msgs : Accepted(m)

\* C7: a get_ai_response call that finds the session disabled or disconnected
\* leaves the transcript and the backend state unchanged, posts no request and
\* starts no thread (no message's handling moves except that the call is
\* recorded as ignored or apologized).
C7_OffCallFrame ==
    [][\A m \in Msgs :
          (pc[m] = "none" /\ pc'[m] # "none" /\ (~enabled \/ ~_connected))
          => /\ history' = history
             /\ _connected' = _connected
             /\ _server_model_id' = _server_model_id
             /\ enabled' = enabled
             /\ pc'[m] \in {"ignored", "apologized"}
             /\ \A k \in Msgs \ {m} : pc'[k] = pc[k]
             /\ ev'.kind # "request"]_vars

\* C7 witness: a call has just been ignored by a disabled session.
C7_Witness ==
    ev.kind = "call" /\ ~enabled /\ pc[ev.by] = "ignored"

\* C8 as claimed: a request that ends in a timeout or transport error yields
\* the empty-string failure and leaves the backend state as it was: a session
\* that was connected stays connected.
C8_TimeoutKeepsConnected ==
    (ev.kind = "response" /\ ev.response.kind = "RequestException")
    => (ai_reply[ev.by] = "" /\ _connected = ev.conn)

\* A session that was connected when it accepted a message and is marked
\* disconnected now.
RuntimeDisconnected ==
    enabled /\ ~_connected /\ \E m \in Msgs : Accepted(m)

\* C9 as claimed: a session marked disconnected at runtime self-heals: once a
\* later message has met the disconnected session while the backend is
\* reachable, the session eventually is connected again (or the backend
\* becomes unreachable again).
C9_SelfHeals ==
    [](  (RuntimeDisconnected /\ backendUp /\ \E m \in Msgs : pc[m] = "apologized")
         => <>(_connected \/ ~backendUp))

\* The texts a callback may be invoked with for message m.
ReplyTexts(m) == {ReplyOf(m), GlitchMsg, BrainFartMsg}

IsEvalLine(line) ==
    /\ line.text # <<>>
    /\ startswith(line.text, command_prefix)
    /\ startswith(lower(Tail(line.text)), <<"e", "v", "a", "l">>)

\* The texts li.chat can receive for an engine-stats reply.
StatsSent == {sent_for(<<join(<<",", " ">>, st)>>) : st \in StatsLists}

\* C11 as claimed: a chat line authored by the bot's own username is never
\* routed to the command handler or to the chat session, except that an eval
\* command of the bot itself is honored: it reaches the command handler and
\* the engine-stats reply is what the chat receives.
C11_SelfSuppression ==
    conv.line.username = BotName
    => IF IsEvalLine(conv.line)
       THEN conv.route = "command" /\ conv.sent \in StatsSent
       ELSE conv.route = "none" /\ conv.sent = <<>>

\* C12: for every text and every limit > 0 the sanitized text has at most
\* limit characters; and every text send_reply hands to li.chat is non-empty,
\* has at most 140 characters and contains no newline.
C12_LengthBound ==
    /\ (lab.fn = "_lichess_safe_message" /\ lab.did = "safe_message" /\ lab.limit > 0)
          => Len(lab.out) <= lab.limit
    /\ (lab.fn = "_lichess_safe_message" /\ lab.did = "send_reply")
          => \A i \in 1..Len(lab.sent) :
                /\ lab.sent[i] # <<>>
                /\ Len(lab.sent[i]) <= 140
                /\ \A j \in 1..Len(lab.sent[i]) : lab.sent[i][j] # "\n"

\* C12 witness: a text with a newline and more than 140 characters has been
\* handed to send_reply, and li.chat has received exactly 140 characters.
C12_Witness ==
    /\ lab.fn = "_lichess_safe_message" /\ lab.did = "send_reply"
    /\ Len(lab.text) > 140
    /\ \E j \in 1..Len(lab.text) : lab.text[j] = "\n"
    /\ Len(lab.sent) = 1 /\ Len(lab.sent[1]) = 140

\* The text with its whitespace collapsed (conversation.py:32).
Collapsed(text) == join(<<" ">>, splits(text))

EndsInEllipsis(out) == out # <<>> /\ out[Len(out)] = Ellipsis

\* C13 as claimed: a text longer than limit is sanitized to a text that ends
\* in the ellipsis.
C13_EllipsisWhenLonger_Original ==
    (lab.fn = "_lichess_safe_message" /\ lab.did = "safe_message"
        /\ Len(lab.text) > lab.limit)
    => EndsInEllipsis(lab.out)

\* C13: a text whose whitespace-collapsed form is longer than limit is
\* sanitized to a text that ends in the ellipsis; a text whose collapsed form
\* has at most limit characters is sanitized to that form, without ellipsis.
C13_EllipsisWhenLonger ==
    (lab.fn = "_lichess_safe_message" /\ lab.did = "safe_message")
    => IF Len(Collapsed(lab.text)) > lab.limit
       THEN EndsInEllipsis(lab.out)
       ELSE lab.out = Collapsed(lab.text) /\ ~EndsInEllipsis(lab.out)

\* C13 witness: a text that is too long even when collapsed has been cut at
\* a word boundary and ends in the ellipsis.
C13_Witness ==
    /\ lab.fn = "_lichess_safe_message" /\ lab.did = "safe_message"
    /\ lab.limit = 140
    /\ Len(Collapsed(lab.text)) > 140
    /\ Len(lab.out) = 31
    /\ EndsInEllipsis(lab.out)

\* C14: normalization is idempotent: for every transcript over the roles
\* user, assistant and system and every maximum, normalizing the normalized
\* transcript gives the normalized transcript.
C14_NormalizeIdempotent ==
    (lab.fn = "_normalize_history" /\ lab.did = 2) => lab.twice = lab.once

\* C14 witness: a transcript with a system turn that the first call has both
\* filtered and trimmed to a non-empty transcript has been normalized twice.
C14_Witness ==
    /\ lab.fn = "_normalize_history" /\ lab.did = 2
    /\ \E i \in 1..Len(lab.h) : lab.h[i].role = "system"
    /\ Len(EnforceAlternation(DropLeadingNonUser(lab.h), "user")) > lab.n
    /\ lab.once # <<>>
    /\ lab.once # lab.h

\* The thread of message m has just stored its reply, and the transcript it
\* appended the reply to ended with the user turn of m: no other thread had
\* touched the transcript since m's own append.
StoredOwnReply(m) ==
    /\ hop.kind = "append_assistant"
    /\ hop.by = m
    /\ hop.before # <<>>
    /\ Last(hop.before) = Turn("user", TextOf(m))

\* The transcript ends with the user turn of m and the reply to m, and the
\* reply is what the callback of m receives.
ReplyStoredAndSent(m) ==
    /\ Len(history) >= 2
    /\ Suffix(history, 2) = <<Turn("user", TextOf(m)), Turn("assistant", ReplyOf(m))>>
    /\ pc[m] \in {"cb_reply", "done"}
    /\ pc[m] = "cb_reply" => CallbackText(m) = ReplyOf(m)
    /\ pc[m] = "done" => cbCalls[m] = <<ReplyOf(m)>>

\* C15 as claimed: when a message is handled undisturbed and the completion
\* returns a non-empty reply, then for every positive maximum the transcript
\* afterwards ends with the message's user turn followed by the reply, and
\* the reply is what the callback receives.
C15_ReplyStored_Original ==
    \A m \in Msgs :
        (StoredOwnReply(m) /\ max_history_messages >= 1) => ReplyStoredAndSent(m)

\* C15: the same for every maximum of at least 2; with maximum 1 the reply
\* still reaches the callback, and the transcript is empty afterwards.
C15_ReplyStored ==
    \A m \in Msgs :
        StoredOwnReply(m)
        => IF max_history_messages >= 2
           THEN ReplyStoredAndSent(m)
           ELSE /\ max_history_messages = 1
                /\ history = <<>>
                /\ pc[m] \in {"cb_reply", "done"}
                /\ pc[m] = "cb_reply" => CallbackText(m) = ReplyOf(m)
                /\ pc[m] = "done" => cbCalls[m] = <<ReplyOf(m)>>

\* C15 witness: the second message, handled after the first was done, has
\* its reply stored and delivered.
C15_Witness ==
    /\ StoredOwnReply(2)
    /\ max_history_messages >= 2
    /\ pc[1] = "done" /\ cbCalls[1] = <<ReplyOf(1)>>
    /\ pc[2] = "done" /\ cbCalls[2] = <<ReplyOf(2)>>
    /\ Len(history) >= 2

\* C16: a completion response with status 502, 503 or 504 marks the session
\* disconnected; any other status that is not 200, a body that is not JSON
\* and a body without choices give the empty-string failure (the thread goes
\* on to the glitch reply) and leave _connected as it was.
C16_GatewayMarksDisconnected ==
    (ev.kind = "response" /\ ev.response.kind = "http")
    => LET r == ev.response
           m == ev.by
       IN  /\ r.status \in {502, 503, 504} => ~_connected
           /\ (\/ r.status \notin {200, 502, 503, 504}
               \/ (r.status = 200 /\ r.body \in {"nonjson", "nochoices"}))
              => /\ ai_reply[m] = ""
                 /\ pc[m] = "cb_glitch"
                 /\ _connected = ev.conn

\* C16 witness: a connected session has received a status that is neither
\* 200 nor a gateway status and is still connected, its message failed.
C16_Witness ==
    /\ ev.kind = "response" /\ ev.response.kind = "http"
    /\ ev.response.status \in {404, 500}
    /\ ev.conn /\ _connected
    /\ pc[ev.by] = "cb_glitch"

\* The models query answered 200 with a payload the probe can read.
ModelsAnswered(models) ==
    models.kind = "http" /\ models.status = 200 /\ models.body \in {"models", "nomodels"}

\* C17 as claimed: the probe never raises, and it reports reachable exactly
\* when the models query answers 200 with a parseable payload or, failing
\* that, the request to the root answers with a 2xx or a redirect status.
C17_ProbeReachable_Original ==
    (lab.fn = "_probe_server" /\ lab.did)
    => /\ ~lab.raised
       /\ lab.reachable <=>
             \/ ModelsAnswered(lab.models)
             \/ (lab.root.kind = "http" /\ lab.root.status \in 200..399)

\* C17: the probe never raises, and it reports reachable exactly when the
\* models query answers 200 with a parseable payload or, failing that, the
\* request to the root answers with status 200, 301 or 302.
C17_ProbeReachable ==
    (lab.fn = "_probe_server" /\ lab.did)
    => /\ ~lab.raised
       /\ lab.reachable <=>
             \/ ModelsAnswered(lab.models)
             \/ (lab.root.kind = "http" /\ lab.root.status \in {200, 301, 302})

\* C17 witness: the models query failed and the root answered with a
\* redirect status that the probe does not accept.
C17_Witness ==
    /\ lab.fn = "_probe_server" /\ lab.did
    /\ ~ModelsAnswered(lab.models)
    /\ lab.root.kind = "http" /\ lab.root.status = 307
    /\ ~lab.reachable

\* The line starts with the command prefix.
Prefixed(line) == line.text # <<>> /\ startswith(line.text, command_prefix)

\* cmd is one of the commands of conversation.py:113-134.
KnownCommand(cmd) ==
    \/ cmd \in {<<"c", "o", "m", "m", "a", "n", "d", "s">>, <<"h", "e", "l", "p">>,
                <<"w", "a", "i", "t">>, <<"n", "a", "m", "e">>,
                <<"q", "u", "e", "u", "e">>}
    \/ startswith(cmd, <<"e", "v", "a", "l">>)

\* C18: a line with the command prefix that matches no command produces no
\* reply and is not forwarded to the chat session; a line is forwarded to the
\* chat session (get_ai_response is called) only if it is non-empty and does
\* not start with the command prefix.
C18_UnknownCommandIgnored ==
    /\ (Prefixed(conv.line) /\ ~KnownCommand(lower(Tail(conv.line.text))))
          => /\ conv.sent = <<>>
             /\ ~conv.ping
             /\ conv.route # "chat_session"
             /\ ev.kind # "call"
    /\ (conv.route = "chat_session" \/ ev.kind = "call")
          => /\ conv.line.text # <<>>
             /\ ~Prefixed(conv.line)
             /\ conv.route = "chat_session" /\ ev.kind = "call"
             /\ StrOf(conv.line.text) = TextOf(ev.by)

\* C18 witness: the opponent has written a line with the prefix that is no
\* command, after a free-text line was forwarded; nothing was sent.
C18_Witness ==
    /\ conv.line.username = "opponent"
    /\ conv.line.text = <<"!", "h", "e", "l", "l", "o">>
    /\ conv.route = "command"
    /\ conv.sent = <<>>
    /\ calls >= 1

\* C19 as claimed: for every message handed to get_ai_response the callback
\* is invoked at most once, also when the callback itself raises inside the
\* thread.
C19_CallbackAtMostOnce ==
    \A m \in Msgs : Len(cbCalls[m]) <= 1

\* C20 as claimed: every completion request made for a message is one system
\* turn followed by the stored transcript, and its last turn is the user
\* turn that carries the text of that message, for every maximum and every
\* interleaving of the threads.
C20_RequestEndsWithOwnUserTurn ==
    ev.kind = "request"
    => /\ ev.messages # <<>>
       /\ ev.messages[1].role = "system"
       /\ \A i \in 2..Len(ev.messages) : ev.messages[i].role # "system"
       /\ Tail(ev.messages) = history
       /\ Last(ev.messages) = Turn("user", TextOf(ev.by))

====
